---- MODULE Spec2Model ----
(***************************************************************************)
(* A model of manipulator.py, the subtitle retimer.                        *)
(*                                                                         *)
(* A datetime is a record [s, us]: s whole seconds since                   *)
(* 1900-01-01 00:00:00 (the date datetime.strptime gives to a time that    *)
(* has no date), us the microseconds within that second (0..999999).       *)
(* A timedelta is its total number of microseconds, an integer.            *)
(***************************************************************************)
EXTENDS Integers, Sequences, FiniteSets, TLC

ARROW == "-->"
TIME_SEPARATOR == "@"
LINEAR == "LINEAR"
TRANSLATION == "TRANSLATION"

(***************************************************************************)
(* datetime and timedelta arithmetic                                       *)
(***************************************************************************)

\* datetime + timedelta
DtAdd(d, td) ==
    LET total == d.us + td
    IN  [s |-> d.s + (total \div 1000000), us |-> total % 1000000]

\* datetime - datetime, a timedelta
DtSub(a, b) == (a.s - b.s) * 1000000 + (a.us - b.us)

\* a < b on datetimes
DtLess(a, b) == a.s < b.s \/ (a.s = b.s /\ a.us < b.us)

Abs(n) == IF n < 0 THEN 0 - n ELSE n

RECURSIVE GCD(_, _)
GCD(a, b) == IF b = 0 THEN a ELSE GCD(b, a % b)

\* n / d rounded to the nearest integer, ties to the even one (d > 0):
\* how timedelta.__mul__(float) rounds to whole microseconds.
RoundHalfEven(n, d) ==
    LET q == n \div d
        r == n % d
    IN  IF 2 * r < d THEN q
        ELSE IF 2 * r > d THEN q + 1
        ELSE IF q % 2 = 0 THEN q ELSE q + 1

\* proportion = (x - x0) / (x1 - x0); return proportion * (y1 - y0) + y0.
\* The float `proportion` is modelled by the exact fraction in lowest terms;
\* the product with the timedelta (y1 - y0) is rounded to whole microseconds.
\* Callers test x1 = x0 first: the division raises ZeroDivisionError there.
linear_function(x0, y0, x1, y1, x) ==
    LET num  == DtSub(x, x0)
        den  == DtSub(x1, x0)
        g    == GCD(Abs(num), Abs(den))
        sgn  == IF den < 0 THEN 0 - 1 ELSE 1
        p    == sgn * (num \div g)
        q    == sgn * (den \div g)
    IN  DtAdd(y0, RoundHalfEven(p * DtSub(y1, y0), q))

(***************************************************************************)
(* Formatting and parsing of times                                         *)
(***************************************************************************)

Digit == <<"0", "1", "2", "3", "4", "5", "6", "7", "8", "9">>

\* n in decimal, zero-padded to w digits
RECURSIVE Pad(_, _)
Pad(n, w) == IF w = 0 THEN "" ELSE Pad(n \div 10, w - 1) \o Digit[(n % 10) + 1]

\* t.strftime("%H:%M:%S,%f"): the time of day, six fractional digits
strftime(t) ==
    Pad((t.s \div 3600) % 24, 2) \o ":" \o Pad((t.s \div 60) % 60, 2) \o ":"
        \o Pad(t.s % 60, 2) \o "," \o Pad(t.us, 6)

\* rounds to the nearest millisecond
time_to_string_rounded(t) ==
    LET full == strftime(DtAdd(t, 500))
    IN  SubSeq(full, 1, Len(full) - 3)

time_to_string(t) ==
    LET full == strftime(t)
    IN  SubSeq(full, 1, Len(full) - 3)

\* the number a string of decimal digits denotes
RECURSIVE Num(_)
Num(str) ==
    IF Len(str) = 0 THEN 0
    ELSE LET last == SubSeq(str, Len(str), Len(str))
             d    == CHOOSE k \in 0..9 : Digit[k + 1] = last
         IN  10 * Num(SubSeq(str, 1, Len(str) - 1)) + d

RECURSIVE Pow10(_)
Pow10(k) == IF k = 0 THEN 1 ELSE 10 * Pow10(k - 1)

\* datetime.strptime(str, "%H:%M:%S,%f") of a text HH:MM:SS,f (one to six
\* fractional digits, read as a decimal fraction of a second); the date is
\* 1900-01-01.
strptime(str) ==
    LET frac == SubSeq(str, 10, Len(str))
    IN  [s  |-> 3600 * Num(SubSeq(str, 1, 2)) + 60 * Num(SubSeq(str, 4, 5))
                  + Num(SubSeq(str, 7, 8)),
         us |-> Num(frac) * Pow10(6 - Len(frac))]

(***************************************************************************)
(* Inputs                                                                  *)
(***************************************************************************)

\* most cues in the subtitle file
MaxCues == 2
\* most lines in the corrections file
MaxLines == 3

\* the time lines of the subtitle file: <<start, end>> as written in the file
CueSpans ==
    { <<"00:00:00,001", "00:00:00,002">>,
      <<"00:00:00,002", "00:00:00,004">>,
      <<"00:00:00,003", "00:00:00,001">> }

\* the lines of the corrections file, each split at TIME_SEPARATOR; a line of
\* one part holds no separator
CorrectionLines ==
    { <<"00:00:00,001", "00:00:00,002">>,
      <<"00:00:00,002", "00:00:00,004">>,
      <<"00:00:00,003", "00:00:00,0025">>,
      <<"00:00:02,005", "00:00:00,001">>,
      <<"00:00:00,001-00:00:00,002">> }

\* the -off values, as timedelta(seconds=offset_value)
Offsets == {0 - 2500, 0, 500, 2500}

\* datetime.now(): later than every time strptime gives a cue, all of which
\* lie on 1900-01-01, and by more than any offset here
NowValues == {[s |-> 4, us |-> 250000]}

SeqsUpTo(S, n) == UNION {[1..k -> S] : k \in 0..n}

\* the lines of a cue after its time line: text, then the blank line that
\* closed the block; the last block of a file may lack the blank line
TextOf(k, blank) ==
    (IF k % 2 = 1 THEN <<"Hello">> ELSE <<"- Hi", "- Bye">>)
        \o (IF blank THEN <<"">> ELSE <<>>)

\* a subtitle file, as its blocks
SrtFile(spans, final_blank) ==
    [k \in 1..Len(spans) |->
        [num  |-> Digit[k + 1],
         time |-> spans[k],
         rest |-> TextOf(k, k < Len(spans) \/ final_blank)]]

SrtFiles ==
    {SrtFile(sp, b) : sp \in SeqsUpTo(CueSpans, MaxCues), b \in BOOLEAN}

\* the -cor and -off arguments, <<>> for None; when both are given the
\* corrections file is never read, and one short file stands for all
Arguments ==
    {a \in (({<<>>} \cup {<<f>> : f \in SeqsUpTo(CorrectionLines, MaxLines)})
            \X ({<<>>} \cup {<<o>> : o \in Offsets})) :
        a[1] = <<>> \/ a[2] = <<>> \/ Len(a[1][1]) = 0}

(***************************************************************************)
(* load_srt, load_corrections, update_with_sentinels                       *)
(***************************************************************************)

\* a cue [number, [start, end], text lines..., ""] as the record
\* [num, times, rest]
load_srt(blocks) ==
    [k \in 1..Len(blocks) |->
        [num   |-> blocks[k].num,
         times |-> <<strptime(blocks[k].time[1]), strptime(blocks[k].time[2])>>,
         rest  |-> blocks[k].rest]]

\* list.sort(key=lambda pair: pair[0]): stable, ascending
RECURSIVE InsertSorted(_, _)
InsertSorted(sorted, pair) ==
    IF sorted = <<>> THEN <<pair>>
    ELSE LET n == Len(sorted)
         IN  IF DtLess(pair[1], sorted[n][1])
             THEN Append(InsertSorted(SubSeq(sorted, 1, n - 1), pair), sorted[n])
             ELSE Append(sorted, pair)

RECURSIVE SortByOld(_)
SortByOld(pairs) ==
    IF pairs = <<>> THEN <<>>
    ELSE InsertSorted(SortByOld(SubSeq(pairs, 1, Len(pairs) - 1)), pairs[Len(pairs)])

\* some line holds no TIME_SEPARATOR: load_corrections raises Exception
MissingSeparator(lines) == \E k \in 1..Len(lines) : Len(lines[k]) < 2

load_corrections(lines) ==
    SortByOld([k \in 1..Len(lines) |->
                  <<strptime(lines[k][1]), strptime(lines[k][2])>>])

\* what update_with_sentinels raises, "" when it returns
sentinels_error(sbs, ct, md) ==
    IF Len(sbs) = 0 THEN "IndexError"
    ELSE IF /\ md = LINEAR
            /\ DtLess(ct[Len(ct)][2], sbs[Len(sbs)].times[2])
            /\ ct[Len(ct) - 1][1] = ct[Len(ct)][1]
         THEN "ZeroDivisionError"
         ELSE ""

\* the sentinels of TRANSLATION mode left unshifted
update_with_sentinels_unshifted(sbs, ct, md) ==
    LET dt          == IF md = TRANSLATION THEN DtSub(ct[1][2], ct[1][1]) ELSE 2000000
        first_start == sbs[1].times[1]
        last_end    == sbs[Len(sbs)].times[2]
        ct1 == IF DtLess(first_start, ct[1][1]) /\ md # LINEAR
               THEN <<<<first_start, first_start>>>> \o ct
               ELSE ct
        n   == Len(ct1)
    IN  IF ~DtLess(ct1[n][2], last_end) THEN ct1
        ELSE IF md = LINEAR
             THEN LET fake_time == DtAdd(last_end, dt)
                  IN  Append(ct1, <<fake_time,
                                    linear_function(ct1[n - 1][1], ct1[n - 1][2],
                                                    ct1[n][1], ct1[n][2], fake_time)>>)
             ELSE Append(ct1, <<last_end, last_end>>)

\* the anchor of LINEAR mode appended at the last cue end itself
update_with_sentinels_at_end(sbs, ct, md) ==
    LET dt          == IF md = TRANSLATION THEN DtSub(ct[1][2], ct[1][1]) ELSE 2000000
        first_start == sbs[1].times[1]
        last_end    == sbs[Len(sbs)].times[2]
        ct1 == IF DtLess(first_start, ct[1][1]) /\ md # LINEAR
               THEN <<<<first_start, DtAdd(first_start, dt)>>>> \o ct
               ELSE ct
        n   == Len(ct1)
    IN  IF ~DtLess(ct1[n][2], last_end) THEN ct1
        ELSE IF md = LINEAR
             THEN LET fake_time == last_end
                  IN  Append(ct1, <<fake_time,
                                    linear_function(ct1[n - 1][1], ct1[n - 1][2],
                                                    ct1[n][1], ct1[n][2], fake_time)>>)
             ELSE Append(ct1, <<last_end, DtAdd(last_end, dt)>>)

\* corrected_times as update_with_sentinels leaves it
update_with_sentinels(sbs, ct, md) ==
    LET dt          == IF md = TRANSLATION THEN DtSub(ct[1][2], ct[1][1]) ELSE 2000000
        first_start == sbs[1].times[1]
        last_end    == sbs[Len(sbs)].times[2]
        ct1 == IF DtLess(first_start, ct[1][1]) /\ md # LINEAR
               THEN <<<<first_start, DtAdd(first_start, dt)>>>> \o ct
               ELSE ct
        n   == Len(ct1)
    IN  IF ~DtLess(ct1[n][2], last_end) THEN ct1
        ELSE IF md = LINEAR
             THEN LET fake_time == DtAdd(last_end, dt)
                  IN  Append(ct1, <<fake_time,
                                    linear_function(ct1[n - 1][1], ct1[n - 1][2],
                                                    ct1[n][1], ct1[n][2], fake_time)>>)
             ELSE Append(ct1, <<last_end, DtAdd(last_end, dt)>>)

\* the loop with >= for >
RECURSIVE advance_inclusive(_, _, _)
advance_inclusive(ct, i, t) ==
    IF i + 2 > Len(ct) THEN i
    ELSE IF ~DtLess(t, ct[i + 2][1]) THEN advance_inclusive(ct, i + 1, t)
    ELSE i

\* while t > corrected_times[which_pair + 1][0]: which_pair += 1
\* (which_pair counts from 0; the result has no pair after it when the read
\* of corrected_times[which_pair + 1] raises IndexError)
RECURSIVE advance(_, _, _)
advance(ct, i, t) ==
    IF i + 2 > Len(ct) THEN i
    ELSE IF DtLess(ct[i + 2][1], t) THEN advance(ct, i + 1, t)
    ELSE i

\* the cue written without its last line
cue_lines_short(sub, line) ==
    <<sub.num, line>> \o SubSeq(sub.rest, 1, Len(sub.rest) - 1)

\* print("\n".join(sub), file=f): the lines one cue adds to the output
cue_lines(sub, line) == <<sub.num, line>> \o sub.rest

(***************************************************************************)
(* update_times                                                            *)
(***************************************************************************)

VARIABLES
    srt_blocks,        \* the subtitle file
    corrections_file,  \* <<>> (None) or <<the lines of the corrections file>>
    offset,            \* <<>> (None) or <<the offset>>
    now,               \* what datetime.now() returns
    pc,                \* where update_times is
    err,               \* the exception that ended the run, "" if none
    subs,
    mode,
    corrected_times,
    which_pair,
    cue,               \* the cue the loop is at, from 1
    done,              \* how many times of that cue are converted
    out,               \* <<>> until the output file is opened, then <<its lines>>
    t,                 \* a time given to time_to_string
    text               \* <<>> or <<the text time_to_string returned>>

vars == <<srt_blocks, corrections_file, offset, now, pc, err, subs, mode,
          corrected_times, which_pair, cue, done, out, t, text>>

inputs == <<srt_blocks, corrections_file, offset, now>>

Init ==
    /\ srt_blocks \in SrtFiles
    /\ \E a \in Arguments : corrections_file = a[1] /\ offset = a[2]
    /\ now \in NowValues
    /\ pc = "begin"
    /\ err = ""
    /\ subs = <<>>
    /\ mode = ""
    /\ corrected_times = <<>>
    /\ which_pair = 0
    /\ cue = 1
    /\ done = 0
    /\ out = <<>>
    /\ t = [s |-> 0, us |-> 0]
    /\ text = <<>>

\* lines 317-319: the assertion on the arguments, then load_srt
AssertFails ==
    /\ pc = "begin"
    /\ (corrections_file = <<>>) = (offset = <<>>)
    /\ pc' = "failed"
    /\ err' = "AssertionError"
    /\ UNCHANGED <<inputs, subs, mode, corrected_times, which_pair, cue, done,
                   out, t, text>>

LoadSrt ==
    /\ pc = "begin"
    /\ (corrections_file = <<>>) # (offset = <<>>)
    /\ subs' = load_srt(srt_blocks)
    /\ pc' = "corrections"
    /\ UNCHANGED <<inputs, err, mode, corrected_times, which_pair, cue, done,
                   out, t, text>>

\* lines 320-323
Translation ==
    /\ pc = "corrections"
    /\ corrections_file = <<>>
    /\ mode' = TRANSLATION
    /\ corrected_times' = << <<now, DtAdd(now, offset[1])>> >>
    /\ pc' = "sentinels"
    /\ UNCHANGED <<inputs, err, subs, which_pair, cue, done, out, t, text>>

\* lines 324-329
Linear ==
    /\ pc = "corrections"
    /\ corrections_file # <<>>
    /\ ~MissingSeparator(corrections_file[1])
    /\ Len(corrections_file[1]) >= 2
    /\ mode' = LINEAR
    /\ corrected_times' = load_corrections(corrections_file[1])
    /\ pc' = "sentinels"
    /\ UNCHANGED <<inputs, err, subs, which_pair, cue, done, out, t, text>>

\* lines 202-204
LinearMalformed ==
    /\ pc = "corrections"
    /\ corrections_file # <<>>
    /\ MissingSeparator(corrections_file[1])
    /\ mode' = LINEAR
    /\ pc' = "failed"
    /\ err' = "Exception"
    /\ UNCHANGED <<inputs, subs, corrected_times, which_pair, cue, done, out,
                   t, text>>

\* lines 327-329
LinearTooFew ==
    /\ pc = "corrections"
    /\ corrections_file # <<>>
    /\ ~MissingSeparator(corrections_file[1])
    /\ Len(corrections_file[1]) < 2
    /\ mode' = LINEAR
    /\ corrected_times' = load_corrections(corrections_file[1])
    /\ pc' = "failed"
    /\ err' = "SystemExit"
    /\ UNCHANGED <<inputs, subs, which_pair, cue, done, out, t, text>>

\* line 330
Sentinels ==
    /\ pc = "sentinels"
    /\ sentinels_error(subs, corrected_times, mode) = ""
    /\ corrected_times' = update_with_sentinels(subs, corrected_times, mode)
    /\ pc' = "open"
    /\ UNCHANGED <<inputs, err, subs, mode, which_pair, cue, done, out, t, text>>

SentinelsRaise ==
    /\ pc = "sentinels"
    /\ sentinels_error(subs, corrected_times, mode) # ""
    /\ pc' = "failed"
    /\ err' = sentinels_error(subs, corrected_times, mode)
    /\ UNCHANGED <<inputs, subs, mode, corrected_times, which_pair, cue, done,
                   out, t, text>>

\* lines 332-334
OpenOutput ==
    /\ pc = "open"
    /\ which_pair' = 0
    /\ out' = << <<>> >>
    /\ cue' = 1
    /\ done' = 0
    /\ pc' = "remap"
    /\ UNCHANGED <<inputs, err, subs, mode, corrected_times, t, text>>

\* lines 336-341, one time of the cue
RemapTime ==
    /\ pc = "remap"
    /\ cue <= Len(subs)
    /\ done < 2
    /\ LET x  == subs[cue].times[done + 1]
           wp == advance(corrected_times, which_pair, x)
       IN  /\ which_pair' = wp
           /\ IF wp + 2 > Len(corrected_times)
              THEN /\ pc' = "failed"
                   /\ err' = "IndexError"
                   /\ UNCHANGED <<subs, done>>
              ELSE IF corrected_times[wp + 1][1] = corrected_times[wp + 2][1]
              THEN /\ pc' = "failed"
                   /\ err' = "ZeroDivisionError"
                   /\ UNCHANGED <<subs, done>>
              ELSE /\ subs' = [subs EXCEPT ![cue].times[done + 1] =
                                 time_to_string(linear_function(
                                     corrected_times[wp + 1][1], corrected_times[wp + 1][2],
                                     corrected_times[wp + 2][1], corrected_times[wp + 2][2],
                                     x))]
                   /\ done' = done + 1
                   /\ UNCHANGED <<pc, err>>
    /\ UNCHANGED <<inputs, mode, corrected_times, cue, out, t, text>>

\* lines 342-343
WriteCue ==
    /\ pc = "remap"
    /\ cue <= Len(subs)
    /\ done = 2
    /\ LET line == subs[cue].times[1] \o " " \o ARROW \o " " \o subs[cue].times[2]
       IN  /\ subs' = [subs EXCEPT ![cue].times = line]
           /\ out' = <<out[1] \o cue_lines(subs[cue], line)>>
    /\ cue' = cue + 1
    /\ done' = 0
    /\ UNCHANGED <<inputs, pc, err, mode, corrected_times, which_pair, t, text>>

\* lines 344-345
Return ==
    /\ pc = "remap"
    /\ cue > Len(subs)
    /\ pc' = "returned"
    /\ UNCHANGED <<inputs, err, subs, mode, corrected_times, which_pair, cue,
                   done, out, t, text>>

Next ==
    \/ AssertFails
    \/ LoadSrt
    \/ Translation
    \/ Linear
    \/ LinearMalformed
    \/ LinearTooFew
    \/ Sentinels
    \/ SentinelsRaise
    \/ OpenOutput
    \/ RemapTime
    \/ WriteCue
    \/ Return

Spec == Init /\ [][Next]_vars

(***************************************************************************)
(* update_with_sentinels on its own, given the one anchor (now, now + offset)*)
(* of TRANSLATION mode for any instant now                                 *)
(***************************************************************************)

AnyNow ==
    {[s |-> 0, us |-> 1000], [s |-> 0, us |-> 2000], [s |-> 0, us |-> 3000]}
        \cup NowValues

InitSentinels ==
    /\ srt_blocks \in SrtFiles
    /\ corrections_file = <<>>
    /\ \E o \in Offsets : offset = <<o>>
    /\ now \in AnyNow
    /\ pc = "sentinels"
    /\ err = ""
    /\ subs = load_srt(srt_blocks)
    /\ mode = TRANSLATION
    /\ corrected_times = << <<now, DtAdd(now, offset[1])>> >>
    /\ which_pair = 0
    /\ cue = 1
    /\ done = 0
    /\ out = <<>>
    /\ t = [s |-> 0, us |-> 0]
    /\ text = <<>>

NextSentinels ==
    \/ Sentinels
    \/ SentinelsRaise

SpecSentinels == InitSentinels /\ [][NextSentinels]_vars

(***************************************************************************)
(* time_to_string on its own                                               *)
(***************************************************************************)

\* seconds since 1900-01-01 00:00:00: times of that day, one of the day
\* before and one of the day after
SecondsGiven == {0 - 1, 0, 59, 179, 3600, 45296, 86399, 86579}

MicrosecondsGiven ==
    {0, 123, 999, 1000, 12399, 123456, 123999, 999499, 999500, 999999}

InitTime ==
    /\ t \in [s : SecondsGiven, us : MicrosecondsGiven]
    /\ text = <<>>
    /\ srt_blocks = <<>>
    /\ corrections_file = <<>>
    /\ offset = <<>>
    /\ now \in NowValues
    /\ pc = "format"
    /\ err = ""
    /\ subs = <<>>
    /\ mode = ""
    /\ corrected_times = <<>>
    /\ which_pair = 0
    /\ cue = 1
    /\ done = 0
    /\ out = <<>>

TimeToString ==
    /\ pc = "format"
    /\ text' = <<time_to_string(t)>>
    /\ pc' = "formatted"
    /\ UNCHANGED <<inputs, err, subs, mode, corrected_times, which_pair, cue,
                   done, out, t>>

NextTime == TimeToString

SpecTime == InitTime /\ [][NextTime]_vars

(***************************************************************************)
(* Properties                                                              *)
(***************************************************************************)

\* the time of cue k as the subtitle file gives it: j = 1 start, j = 2 end
Orig(k, j) == strptime(srt_blocks[k].time[j])

\* the times of the file in file order: start, then end, of each cue
NumTimes == 2 * Len(srt_blocks)
TimeAt(i) == Orig((i + 1) \div 2, 2 - (i % 2))
WellOrdered == \A i \in 1..(NumTimes - 1) : ~DtLess(TimeAt(i + 1), TimeAt(i))

StrictlyAscending(ct) ==
    \A k \in 1..(Len(ct) - 1) : DtLess(ct[k][1], ct[k + 1][1])

\* the anchors as loaded from the corrections file
Loaded == load_corrections(corrections_file[1])
LoadedOk ==
    /\ corrections_file # <<>>
    /\ ~MissingSeparator(corrections_file[1])
    /\ Len(corrections_file[1]) >= 2

\* how many lines of the output come before those of cue k
RECURSIVE LinesBefore(_)
LinesBefore(k) ==
    IF k <= 1 THEN 0
    ELSE LinesBefore(k - 1) + 2 + Len(srt_blocks[k - 1].rest)

\* the time line written for cue k, and its two times
TimeLine(k) == out[1][LinesBefore(k) + 2]
Written(k) == out # <<>> /\ k < cue
WrittenTime(k, j) ==
    IF j = 1 THEN SubSeq(TimeLine(k), 1, 12) ELSE SubSeq(TimeLine(k), 18, 29)

\* C1: in TRANSLATION mode every time written is the original time plus the
\* offset (printed by time_to_string), for every cue, both of its times and
\* every offset; a run on a file with a cue in it does not fail and writes
\* every cue.
C1_TranslationAddsOffset ==
    mode = TRANSLATION =>
        /\ pc = "failed" => srt_blocks = <<>>
        /\ pc = "returned" => cue = Len(srt_blocks) + 1
        /\ \A k \in 1..Len(srt_blocks) : Written(k) =>
              TimeLine(k) =
                  time_to_string(DtAdd(Orig(k, 1), offset[1])) \o " --> "
                      \o time_to_string(DtAdd(Orig(k, 2), offset[1]))

\* offset +2.5 ms: 00:00:00,001 --> 00:00:00,002 is written as
\* 00:00:00,003 --> 00:00:00,004 (3.5 ms and 4.5 ms, truncated)
C1_Witness ==
    /\ pc = "returned"
    /\ mode = TRANSLATION
    /\ offset = <<2500>>
    /\ Len(srt_blocks) = 2
    /\ srt_blocks[1].time = <<"00:00:00,001", "00:00:00,002">>
    /\ out[1][2] = "00:00:00,003 --> 00:00:00,004"

\* C2: after update_with_sentinels in TRANSLATION mode, from the one anchor
\* (now, now + offset) for any now and any offset, the first anchor's old_time
\* is at or before the earliest cue start and the last anchor's old_time at or
\* after the latest cue end.
C2_SpanCovered ==
    (pc = "open" /\ mode = TRANSLATION) =>
        \A k \in 1..Len(subs) :
            /\ ~DtLess(subs[k].times[1], corrected_times[1][1])
            /\ ~DtLess(corrected_times[Len(corrected_times)][1], subs[k].times[2])

\* update_with_sentinels has just appended an anchor to the loaded ones
Appended ==
    /\ pc = "open"
    /\ mode = LINEAR
    /\ LoadedOk
    /\ Len(corrected_times) = Len(corrections_file[1]) + 1

\* an end time no cue ends after
IsLatestEnd(x) ==
    /\ \E k \in 1..Len(srt_blocks) : Orig(k, 2) = x
    /\ \A k \in 1..Len(srt_blocks) : ~DtLess(x, Orig(k, 2))

\* the new_time of the appended anchor is the value at its old_time of the
\* line through the last two loaded anchors
AppendedNewTime ==
    LET n == Len(Loaded)
        a == corrected_times[n + 1]
    IN  a[2] = linear_function(Loaded[n - 1][1], Loaded[n - 1][2],
                               Loaded[n][1], Loaded[n][2], a[1])

\* C3 as stated: in LINEAR mode the appended anchor's old_time is the latest
\* cue end exactly, and its new_time the value there of the line through the
\* last two loaded anchors.
C3_AppendedAtLatestEnd ==
    Appended =>
        /\ IsLatestEnd(corrected_times[Len(corrected_times)][1])
        /\ AppendedNewTime

\* C3 as amended: the appended anchor's old_time is the end of the last cue of
\* the file plus two seconds, and its new_time the value there of the line
\* through the last two loaded anchors.
C3_AppendedTwoSecondsLater ==
    Appended =>
        /\ corrected_times[Len(corrected_times)][1] =
               DtAdd(Orig(Len(srt_blocks), 2), 2000000)
        /\ AppendedNewTime

C3_Witness ==
    /\ Appended
    /\ Len(Loaded) = 3
    /\ WellOrdered
    /\ StrictlyAscending(corrected_times)

\* the loaded anchors have pairwise distinct old_times
DistinctOld(ct) ==
    \A a, b \in 1..Len(ct) : a # b => ct[a][1] # ct[b][1]

\* C4: in LINEAR mode with two or more anchors of pairwise distinct old_time,
\* every cue time later than the last loaded anchor's old_time is written as
\* the value there of the line through the last two loaded anchors, and every
\* cue time earlier than the first loaded anchor's old_time as the value there
\* of the line through the first two.  Stated for files whose times are
\* non-decreasing in file order.
C4_Extrapolation ==
    (mode = LINEAR /\ LoadedOk /\ DistinctOld(Loaded) /\ WellOrdered
        /\ pc \in {"returned", "failed"}) =>
        LET n == Len(Loaded)
        IN  \A k \in 1..Len(srt_blocks) : \A j \in 1..2 :
                LET x == Orig(k, j)
                IN  /\ DtLess(Loaded[n][1], x) =>
                          /\ Written(k)
                          /\ WrittenTime(k, j) = time_to_string(linear_function(
                                 Loaded[n - 1][1], Loaded[n - 1][2],
                                 Loaded[n][1], Loaded[n][2], x))
                    /\ DtLess(x, Loaded[1][1]) =>
                          /\ Written(k)
                          /\ WrittenTime(k, j) = time_to_string(linear_function(
                                 Loaded[1][1], Loaded[1][2],
                                 Loaded[2][1], Loaded[2][2], x))

\* the anchors' old_times span every cue time
Covered(ct) ==
    /\ Len(ct) >= 2
    /\ \A i \in 1..NumTimes :
          /\ ~DtLess(TimeAt(i), ct[1][1])
          /\ ~DtLess(ct[Len(ct)][1], TimeAt(i))

\* x lies in the interval of anchors i and i + 1 (i from 0)
InPair(ct, i, x) ==
    /\ i + 2 <= Len(ct)
    /\ ~DtLess(x, ct[i + 1][1])
    /\ ~DtLess(ct[i + 2][1], x)

\* the time of the cue the loop is at, converted last: its text, and where
\* the cursor stopped for it
C5_LastConverted ==
    LET x  == Orig(cue, done)
        ct == corrected_times
        i  == which_pair
        x0 == ct[i + 1][1]
        y0 == ct[i + 1][2]
        x1 == ct[i + 2][1]
        y1 == ct[i + 2][2]
        s  == subs[cue].times[done]
    IN  /\ InPair(ct, i, x)
        /\ \A j \in 0..(i - 1) : ~InPair(ct, j, x)
        /\ s = time_to_string(linear_function(x0, y0, x1, y1, x))
        /\ x = x0 => s = time_to_string(y0)
        /\ x = x1 => s = time_to_string(y1)
        /\ DtSub(x, x0) = DtSub(x1, x) =>
              s = time_to_string(DtAdd(y0, RoundHalfEven(DtSub(y1, y0), 2)))

C5_InLoop ==
    (out # <<>> /\ WellOrdered /\ StrictlyAscending(corrected_times)
        /\ Covered(corrected_times)) =>
        /\ err = ""
        /\ (cue = 1 /\ done = 0) => which_pair = 0
        /\ (pc = "remap" /\ done >= 1) => C5_LastConverted

\* C5: with cue times non-decreasing in file order and anchors strictly
\* ascending by old_time that cover them, the cursor starts at 0 and for each
\* time stops at the smallest i whose interval holds it; the time is written
\* as the value of the line through anchors i and i + 1, an anchor's old_time
\* as that anchor's new_time and the middle of an interval as the middle of
\* the two new_times; and the cursor never decreases.
C5_Cursor == []C5_InLoop /\ [][which_pair' >= which_pair]_vars

\* three anchors apart, two cues in order: the cursor has moved on
C5_Witness ==
    /\ pc = "returned"
    /\ mode = LINEAR
    /\ WellOrdered
    /\ StrictlyAscending(corrected_times)
    /\ Covered(corrected_times)
    /\ Len(srt_blocks) = 2
    /\ which_pair >= 1

\* C6: a run that ends in a failure has not opened the output file.
C6_NoOutputOnFailure == pc = "failed" => out = <<>>

C8_Truncates ==
    pc = "formatted" =>
        LET str == text[1]
        IN  /\ Len(str) = 12
            /\ Num(SubSeq(str, 1, 2)) = (t.s \div 3600) % 24
            /\ Num(SubSeq(str, 4, 5)) = (t.s \div 60) % 60
            /\ Num(SubSeq(str, 7, 8)) = t.s % 60
            /\ SubSeq(str, 3, 3) = ":" /\ SubSeq(str, 6, 6) = ":"
            /\ SubSeq(str, 9, 9) = ","
            /\ Num(SubSeq(str, 10, 12)) = t.us \div 1000
            /\ strptime(str) = [s |-> t.s % 86400, us |-> 1000 * (t.us \div 1000)]

\* 00:02:59 and 123999 microseconds prints as 00:02:59,123
C8_Witness ==
    /\ pc = "formatted"
    /\ t = [s |-> 179, us |-> 123999]
    /\ text = <<"00:02:59,123">>

\* C9: in LINEAR mode with cue times non-decreasing in file order, once
\* update_with_sentinels has returned the last anchor's old_time is at or
\* after the latest cue end whenever that end is after the last loaded
\* anchor's old_time, and in the loop the cursor has an anchor after it: no
\* read past the end of the anchors.
C9_CursorInRange ==
    (mode = LINEAR /\ LoadedOk /\ srt_blocks # <<>> /\ WellOrdered
        /\ (pc = "open" \/ out # <<>>)) =>
        /\ DtLess(Loaded[Len(Loaded)][1], Orig(Len(srt_blocks), 2)) =>
              ~DtLess(corrected_times[Len(corrected_times)][1],
                      Orig(Len(srt_blocks), 2))
        /\ which_pair + 2 <= Len(corrected_times)
        /\ err # "IndexError"

\* the anchors update_with_sentinels was given
Given ==
    IF mode = LINEAR THEN Loaded ELSE << <<now, DtAdd(now, offset[1])>> >>

\* C10: given anchors strictly ascending by old_time, update_with_sentinels
\* leaves them strictly ascending by old_time, sentinels included.
C10_StaysAscending ==
    (pc = "open" /\ StrictlyAscending(Given)) =>
        StrictlyAscending(corrected_times)

====
